---- MODULE Spec2Model ----
(***************************************************************************)
(* Model of the landing page's client-side scripts.                        *)
(*                                                                         *)
(* main.js (src/unnamed/part_000) and interactions.js both register a      *)
(* submit listener on the same form (.contact-form) and both write the     *)
(* same submit button (.contact-form .btn-primary).  interactions.js names *)
(* js/main.js as a dependency, so main.js's listener is registered first   *)
(* and runs first on every submit event.                                   *)
(*                                                                         *)
(* Time is counted in units of 1000 ms.  A timer fires no earlier than its *)
(* delay; due timers fire in registration order; an await continuation     *)
(* runs in the same task as the timer callback that settles its promise.   *)
(***************************************************************************)
EXTENDS Integers, Sequences, FiniteSets, TLC

\* ------------------------------------------------------------------ bounds

\* Number of submit events delivered to the form in one page view.
MaxSubmits == 2
\* Number of submit events delivered while field validation is examined.
MaxFormSubmits == 1
\* Number of submit events delivered while the return to idle is examined.
MaxLiveSubmits == 1
\* Number of viewport entries and exits of animated elements.
MaxViewportChanges == 3
\* Number of changes of the reduced-motion preference.
MaxPreferenceChanges == 2
\* Clicks on navigation links that are followed.
MaxClicks == 2
\* Exceptions thrown inside handlers that are followed.
MaxHandlerFaults == 1

\* ------------------------------------------------------- program constants

\* main.js CONFIG.FORM_SUCCESS_DURATION (3000 ms)
FORM_SUCCESS_DURATION == 3
\* main.js simulateFormSubmission: setTimeout(..., 2000)
MAIN_SIM_DELAY == 2
\* interactions.js CONFIG
LOADING_MIN_DURATION == 1
SUCCESS_DISPLAY_DURATION == 3
ERROR_DISPLAY_DURATION == 3
\* interactions.js simulateSubmission: delay = 1000 + Math.random() * 2000
INTER_SIM_MIN == 1
INTER_SIM_MAX == 3

BUTTON_STATES == {"idle", "loading", "success", "error"}

\* ------------------------------------------------------------ field values

\* A field value is a sequence of one-character strings.
Whitespace == {" "}
Letters == {"A", "D", "J", "a", "b", "c", "e", "n", "o", "x"}
Digits == {"0", "1", "2", "3", "4", "5", "6", "7", "8", "9"}

RECURSIVE TrimStart(_)
TrimStart(s) ==
    IF s # <<>> /\ Head(s) \in Whitespace THEN TrimStart(Tail(s)) ELSE s

RECURSIVE TrimEnd(_)
TrimEnd(s) ==
    IF s # <<>> /\ s[Len(s)] \in Whitespace
    THEN TrimEnd(SubSeq(s, 1, Len(s) - 1))
    ELSE s

\* String.prototype.trim
Trim(s) == TrimEnd(TrimStart(s))

AllIn(s, set) == \A i \in 1..Len(s) : s[i] \in set

\* /^[a-zA-Z\s'-]+$/
NamePattern(s) == Len(s) >= 1 /\ AllIn(s, Letters \cup Whitespace \cup {"'", "-"})

\* /^[^\s@]+@[^\s@]+\.[^\s@]+$/
NoSpaceAt(s) == Len(s) >= 1 /\ \A i \in 1..Len(s) : s[i] \notin Whitespace \cup {"@"}
EmailPattern(s) ==
    \E i \in 1..Len(s) : \E j \in 1..Len(s) :
        /\ i + 1 < j
        /\ j < Len(s)
        /\ s[i] = "@"
        /\ s[j] = "."
        /\ NoSpaceAt(SubSeq(s, 1, i - 1))
        /\ NoSpaceAt(SubSeq(s, i + 1, j - 1))
        /\ NoSpaceAt(SubSeq(s, j + 1, Len(s)))

\* /^[\d\s()+-]+$/
PhonePattern(s) == Len(s) >= 1 /\ AllIn(s, Digits \cup Whitespace \cup {"(", ")", "+", "-"})

Fields == {"name", "email", "phone", "message"}

\* VALIDATION_RULES: minLength 0 stands for an absent (falsy) minLength,
\* pattern "none" for an absent pattern.
VALIDATION_RULES ==
    [name    |-> [required |-> TRUE,  minLength |-> 2,  pattern |-> "name"],
     email   |-> [required |-> TRUE,  minLength |-> 0,  pattern |-> "email"],
     phone   |-> [required |-> FALSE, minLength |-> 0,  pattern |-> "phone"],
     message |-> [required |-> TRUE,  minLength |-> 10, pattern |-> "none"]]

\* rules.pattern.test(fieldValue)
PatternTest(p, s) ==
    CASE p = "name"  -> NamePattern(s)
      [] p = "email" -> EmailPattern(s)
      [] p = "phone" -> PhonePattern(s)
      [] OTHER       -> TRUE

\* The inputs carrying the required attribute in the page's markup, which
\* validateForm selects with 'input[required], textarea[required]'.
RequiredInputs == {f \in Fields : VALIDATION_RULES[f].required}


\* ------------------------------------------------------------------- state

VARIABLES
    values,             \* field name -> current value of the input
    fieldErrors,        \* field name -> the .field-error elements of its group
    errorClass,         \* field name -> the input has class "error"
    ariaInvalid,        \* field name -> the input has aria-invalid="true"
    btnClass,           \* state classes present on the submit button
    btnDisabled,        \* button.disabled
    btnContent,         \* button.innerHTML
    dataOriginalText,   \* the button's data-original-text attribute ("" if absent)
    currentState,       \* ButtonStateManager.currentState
    stateTimeout,       \* ButtonStateManager.stateTimeout (0 for null)
    isSubmitting,       \* FormSubmissionManager.isSubmitting
    formErrors,         \* number of .form-error banners (main.js)
    formErrorMessages,  \* the .form-error-message banners (interactions.js)
    timers,             \* pending setTimeout callbacks, in registration order
    dispatch,           \* position of the submit event among its listeners
    submitCount,        \* submit events delivered so far
    submits,            \* history: per submit event, what was applied for it
    staleFired,         \* history: a display timer fired after a newer transition
    last                \* history: the handler that ran last and its result

formVars == <<values, fieldErrors, errorClass, ariaInvalid>>
buttonVars == <<btnClass, btnDisabled, btnContent, dataOriginalText>>
managerVars == <<currentState, stateTimeout, isSubmitting>>
bannerVars == <<formErrors, formErrorMessages>>
historyVars == <<submitCount, submits, staleFired, last>>
pageVars == <<formVars, buttonVars, managerVars, bannerVars, timers, dispatch, historyVars>>

\* Reveal animations: main.js initScrollAnimations and animations.js.  Their
\* timers count in units of 50 ms.
VARIABLES
    reducedMotion,      \* matchMedia('(prefers-reduced-motion: reduce)').matches
    noAnimations,       \* document.body has the attribute data-no-animations
    loaded,             \* DOMContentLoaded has been dispatched
    intersecting,       \* element -> it is sufficiently visible in the viewport
    classList,          \* element -> animation classes on the element
    styleOpacity,       \* element -> inline style.opacity ("" if unset)
    animationDelay,     \* element -> data-animation-delay (-1 if absent)
    mainTargets,        \* main.js's observer: target -> visibility it notified last
    observers,          \* animationState.observers: [group, targets] per observer
    animatedElements,   \* animationState.animatedElements
    isInitialized,      \* animationState.isInitialized
    revealTimers,       \* pending reveal timers, in registration order
    viewportChanges,    \* viewport entries and exits so far
    preferenceChanges,  \* reduced-motion preference changes so far
    delayWrittenBy,     \* history: element -> scripts that wrote data-animation-delay
    revealedAgain,      \* history: a script revealed an element it had revealed before
    revealedEarly,      \* history: a reveal was timed shorter than the script's stagger
    revealedDisabled    \* history: a reveal was executed while animations are disabled

elementVars == <<classList, styleOpacity, animationDelay>>
observerVars == <<mainTargets, observers, animatedElements, isInitialized, revealTimers>>
platformVars == <<reducedMotion, noAnimations, loaded, intersecting>>
animHistoryVars == <<viewportChanges, preferenceChanges, delayWrittenBy,
                     revealedAgain, revealedEarly, revealedDisabled>>
animVars == <<platformVars, elementVars, observerVars, animHistoryVars>>

\* Page load and navigation: the scripts' top-level code, their init
\* functions and main.js handleSmoothScroll.
VARIABLES
    hostname,           \* window.location.hostname
    formPresent,        \* the document has a .contact-form element
    buttonPresent,      \* the form has a .btn-primary element
    phase,              \* "parsed", "executed" (scripts have run) or "ready"
    failed,             \* history: the init step that threw ("" if none did)
    entered,            \* history: the init steps that were called
    listeners,          \* listeners the init functions registered
    managers,           \* manager objects interactions.js constructed
    globals,            \* debug objects defined on window
    uncaught,           \* history: handlers an exception propagated out of
    caught,             \* history: handlers and steps that caught an exception
    handlerFaults,      \* exceptions thrown inside handlers so far
    scrollRequest,      \* top of the last window.scrollTo request (<<>> if none)
    url,                \* the URL fragment set through history (<<>> if none)
    focused,            \* id of the focused target ("null" if none)
    tabindex,           \* ids of the elements with tabindex="-1"
    navEffects,         \* history: the calls the last click handler made, in order
    defaultPrevented,   \* the last click event's defaultPrevented
    logged,             \* level of the last click handler's log entry ("" if none)
    lastClick,          \* history: the link clicked last
    clicks              \* clicks so far

loadVars == <<hostname, formPresent, buttonPresent, phase, failed, entered,
              listeners, managers, globals, uncaught, caught, handlerFaults>>
navVars == <<scrollRequest, url, focused, tabindex, navEffects, defaultPrevented,
             logged, lastClick, clicks>>
shellVars == <<loadVars, navVars>>

vars == <<pageVars, animVars, shellVars>>

\* The page state as one value, so that a handler is the composition of
\* the calls it makes.
Cur ==
    [values |-> values, fieldErrors |-> fieldErrors, errorClass |-> errorClass,
     ariaInvalid |-> ariaInvalid, btnClass |-> btnClass, btnDisabled |-> btnDisabled,
     btnContent |-> btnContent, dataOriginalText |-> dataOriginalText,
     currentState |-> currentState, stateTimeout |-> stateTimeout,
     isSubmitting |-> isSubmitting, formErrors |-> formErrors,
     formErrorMessages |-> formErrorMessages, timers |-> timers,
     submits |-> submits, staleFired |-> staleFired]

\* The page becomes p: each element and field of the form takes the value
\* the handler left in it; the form's handlers touch no animated element.
Becomes(s) ==
    \E p \in {s} :
        /\ values' = p.values
        /\ fieldErrors' = p.fieldErrors
        /\ errorClass' = p.errorClass
        /\ ariaInvalid' = p.ariaInvalid
        /\ btnClass' = p.btnClass
        /\ btnDisabled' = p.btnDisabled
        /\ btnContent' = p.btnContent
        /\ dataOriginalText' = p.dataOriginalText
        /\ currentState' = p.currentState
        /\ stateTimeout' = p.stateTimeout
        /\ isSubmitting' = p.isSubmitting
        /\ formErrors' = p.formErrors
        /\ formErrorMessages' = p.formErrorMessages
        /\ timers' = p.timers
        /\ submits' = p.submits
        /\ staleFired' = p.staleFired
        /\ UNCHANGED <<animVars, shellVars>>

\* ------------------------------------------------------------------ timers

DisplayKinds == {"stateTimeout", "mainReset", "mainDefault"}

TimerIds(ts) == {ts[i].id : i \in 1..Len(ts)}

\* The handle setTimeout returns: an id no pending timer has.
NextTimerId(s) == CHOOSE n \in 1..(Len(s.timers) + 1) : n \notin TimerIds(s.timers)

\* setTimeout(callback, delay); sid names the submit the callback belongs to.
setTimeout(s, kind, delay, sid) ==
    [s EXCEPT !.timers = Append(@, [id |-> NextTimerId(s), kind |-> kind,
                                    left |-> delay, sid |-> sid, stale |-> FALSE])]

\* clearTimeout(handle)
clearTimeout(s, handle) ==
    [s EXCEPT !.timers = SelectSeq(@, LAMBDA t : t.id # handle)]

\* History: a state transition of the button makes every display timer
\* scheduled before it a timer of an earlier state, and is counted for the
\* submit event it was applied for.
NoteTransition(s, state, sid) ==
    [s EXCEPT
       !.timers = [i \in 1..Len(@) |->
                     IF @[i].kind \in DisplayKinds THEN [@[i] EXCEPT !.stale = TRUE] ELSE @[i]],
       !.submits = IF sid \in DOMAIN @
                   THEN [@ EXCEPT ![sid][state] = @ + 1]
                   ELSE @]


\* ------------------------------------------------- main.js: field validation

\* showFieldError without the removal of the existing error element: a
\* variant that C11 rules out.
showFieldError_KeepsExisting(s, f, message) ==
    [s EXCEPT !.fieldErrors[f] = Append(@, message),
              !.errorClass[f] = TRUE,
              !.ariaInvalid[f] = TRUE]

\* showFieldError(field, message)
showFieldError(s, f, message) ==
    LET existing == s.fieldErrors[f]
        removed == IF existing # <<>> THEN Tail(existing) ELSE existing
    IN  [s EXCEPT !.fieldErrors[f] = Append(removed, message),
                  !.errorClass[f] = TRUE,
                  !.ariaInvalid[f] = TRUE]

\* clearFieldError without the removal of the error element: a variant
\* that C10 rules out.
clearFieldError_KeepsElement(s, f) ==
    [s EXCEPT !.errorClass[f] = FALSE,
              !.ariaInvalid[f] = FALSE]

\* clearFieldError(field)
clearFieldError(s, f) ==
    [s EXCEPT !.errorClass[f] = FALSE,
              !.ariaInvalid[f] = FALSE,
              !.fieldErrors[f] = IF @ # <<>> THEN Tail(@) ELSE @]

\* validateField with the minimum length compared by <= : a variant that
\* C8 rules out.
validateField_MinLengthInclusive(s, f) ==
    LET fieldValue == Trim(s.values[f])
        rules == VALIDATION_RULES[f]
    IN  IF rules.required /\ fieldValue = <<>>
        THEN [ok |-> FALSE, page |-> showFieldError(s, f, "required")]
        ELSE IF fieldValue = <<>> /\ ~rules.required
        THEN [ok |-> TRUE, page |-> s]
        ELSE IF rules.minLength # 0 /\ Len(fieldValue) <= rules.minLength
        THEN [ok |-> FALSE, page |-> showFieldError(s, f, "minLength")]
        ELSE IF rules.pattern # "none" /\ ~PatternTest(rules.pattern, fieldValue)
        THEN [ok |-> FALSE, page |-> showFieldError(s, f, "pattern")]
        ELSE [ok |-> TRUE, page |-> clearFieldError(s, f)]

\* validateField without the early return for an empty optional field: a
\* variant that C9 rules out.
validateField_NoOptionalSkip(s, f) ==
    LET fieldValue == Trim(s.values[f])
        rules == VALIDATION_RULES[f]
    IN  IF rules.required /\ fieldValue = <<>>
        THEN [ok |-> FALSE, page |-> showFieldError(s, f, "required")]
        ELSE IF rules.minLength # 0 /\ Len(fieldValue) < rules.minLength
        THEN [ok |-> FALSE, page |-> showFieldError(s, f, "minLength")]
        ELSE IF rules.pattern # "none" /\ ~PatternTest(rules.pattern, fieldValue)
        THEN [ok |-> FALSE, page |-> showFieldError(s, f, "pattern")]
        ELSE [ok |-> TRUE, page |-> clearFieldError(s, f)]

\* validateField(field): the value returned and the page after the call.
validateField(s, f) ==
    LET fieldValue == Trim(s.values[f])
        rules == VALIDATION_RULES[f]
    IN  IF rules.required /\ fieldValue = <<>>
        THEN [ok |-> FALSE, page |-> showFieldError(s, f, "required")]
        ELSE IF fieldValue = <<>> /\ ~rules.required
        THEN [ok |-> TRUE, page |-> s]
        ELSE IF rules.minLength # 0 /\ Len(fieldValue) < rules.minLength
        THEN [ok |-> FALSE, page |-> showFieldError(s, f, "minLength")]
        ELSE IF rules.pattern # "none" /\ ~PatternTest(rules.pattern, fieldValue)
        THEN [ok |-> FALSE, page |-> showFieldError(s, f, "pattern")]
        ELSE [ok |-> TRUE, page |-> clearFieldError(s, f)]

\* The form's inputs in document order.
FormInputs == <<"name", "email", "phone", "message">>

RECURSIVE validateInputs(_, _)
validateInputs(s, inputs) ==
    IF inputs = <<>>
    THEN [ok |-> TRUE, page |-> s]
    ELSE LET one == validateField(s, Head(inputs))
             rest == validateInputs(one.page, Tail(inputs))
         IN  [ok |-> one.ok /\ rest.ok, page |-> rest.page]

\* validateForm(form)
validateForm(s) ==
    validateInputs(s, SelectSeq(FormInputs, LAMBDA f : f \in RequiredInputs))

\* clearAllErrors(form): '.error' also matches the submit button when the
\* button carries the state class "error".
clearAllErrors(s) ==
    [s EXCEPT !.fieldErrors = [f \in Fields |-> <<>>],
              !.errorClass = [f \in Fields |-> FALSE],
              !.ariaInvalid = [f \in Fields |-> FALSE],
              !.btnClass = @ \ {"error"},
              !.formErrors = IF @ > 0 THEN @ - 1 ELSE @]

\* main.js showFormError(form, message)
showFormError(s) == [s EXCEPT !.formErrors = @ + 1]

\* form.reset(): every input returns to its default (empty) value; no input
\* event is fired.
formReset(s) == [s EXCEPT !.values = [f \in Fields |-> <<>>]]

\* ---------------------------------------------------------- button content

OriginalContent == [kind |-> "original", text |-> "original label"]

\* button.textContent
TextContent(content) == content.text

\* main.js setButtonState(button, state)
setButtonState(s, state, sid) ==
    LET originalText == IF s.dataOriginalText # "" THEN s.dataOriginalText
                        ELSE TextContent(s.btnContent)
        cleared == [NoteTransition(s, IF state \in BUTTON_STATES THEN state ELSE "idle", sid)
                      EXCEPT !.btnClass = @ \ {"loading", "success", "error"},
                             !.btnDisabled = FALSE,
                             !.dataOriginalText = originalText]
    IN  CASE state = "loading" ->
               [cleared EXCEPT !.btnClass = @ \cup {"loading"},
                               !.btnDisabled = TRUE,
                               !.btnContent = [kind |-> "span", text |-> "Sending..."]]
          [] state = "success" ->
               [cleared EXCEPT !.btnClass = @ \cup {"success"},
                               !.btnDisabled = TRUE,
                               !.btnContent = [kind |-> "span", text |-> "Message Sent!"]]
          [] state = "error" ->
               [cleared EXCEPT !.btnClass = @ \cup {"error"},
                               !.btnContent = [kind |-> "span", text |-> "Failed - Try Again"]]
          [] OTHER ->
               [cleared EXCEPT !.btnContent = [kind |-> "span", text |-> originalText]]

\* ------------------------------------------ interactions.js: ButtonStateManager

\* setIdleState()
setIdleState(s) ==
    [s EXCEPT !.btnDisabled = FALSE, !.btnContent = OriginalContent]

\* setLoadingState(options)
setLoadingState(s) ==
    [s EXCEPT !.btnDisabled = TRUE,
              !.btnContent = [kind |-> "spinner", text |-> " Sending... "]]

\* setSuccessState(options)
setSuccessState(s, sid) ==
    LET shown == [s EXCEPT !.btnDisabled = TRUE,
                           !.btnContent = [kind |-> "check", text |-> " Message Sent! "]]
    IN  [setTimeout(shown, "stateTimeout", SUCCESS_DISPLAY_DURATION, sid)
           EXCEPT !.stateTimeout = NextTimerId(shown)]

\* setErrorState without the timer that returns the button to idle: a
\* variant that C14 rules out.
setErrorState_NoReturn(s, sid) ==
    [s EXCEPT !.btnDisabled = FALSE,
              !.btnContent = [kind |-> "cross", text |-> " Failed - Try Again "]]

\* setErrorState(options)
setErrorState(s, sid) ==
    LET shown == [s EXCEPT !.btnDisabled = FALSE,
                           !.btnContent = [kind |-> "cross", text |-> " Failed - Try Again "]]
    IN  [setTimeout(shown, "stateTimeout", ERROR_DISPLAY_DURATION, sid)
           EXCEPT !.stateTimeout = NextTimerId(shown)]

\* ButtonStateManager.setState(state, options)
setState(s, state, sid) ==
    LET cancelled == IF s.stateTimeout # 0
                     THEN [clearTimeout(s, s.stateTimeout) EXCEPT !.stateTimeout = 0]
                     ELSE s
        classed == [NoteTransition(cancelled, state, sid)
                      EXCEPT !.btnClass = (@ \ BUTTON_STATES) \cup {state},
                             !.currentState = state]
    IN  CASE state = "idle"    -> setIdleState(classed)
          [] state = "loading" -> setLoadingState(classed)
          [] state = "success" -> setSuccessState(classed, sid)
          [] state = "error"   -> setErrorState(classed, sid)

\* ButtonStateManager.isLoading()
isLoading(s) == s.currentState = "loading"

\* -------------------------------------- interactions.js: FormSubmissionManager

\* FormSubmissionManager.showFormError(message): the banner is named by the
\* handle of the timer that removes it.
showFormErrorMessage(s) ==
    LET existing == s.formErrorMessages
        removed == IF existing # <<>> THEN Tail(existing) ELSE existing
        inserted == [s EXCEPT !.formErrorMessages = <<NextTimerId(s)>> \o removed]
    IN  setTimeout(inserted, "bannerRemove", ERROR_DISPLAY_DURATION, 0)

\* FormSubmissionManager.clearFormErrors()
clearFormErrors(s) == [s EXCEPT !.formErrorMessages = <<>>]

\* FormSubmissionManager.handleSuccess(result)
handleSuccess(s, sid) ==
    setTimeout(setState(s, "success", sid), "interReset", SUCCESS_DISPLAY_DURATION, sid)

\* FormSubmissionManager.handleError(error)
handleError(s, sid) ==
    showFormErrorMessage(setState(s, "error", sid))


\* ------------------------------------------------------- reveal animations

\* main.js CONFIG.ANIMATION_STAGGER (100 ms), in units of 50 ms
ANIMATION_STAGGER == 2
\* animations.js CONFIG.STAGGER_DELAY (150 ms), in units of 50 ms
STAGGER_DELAY == 3

\* The animatable elements of the page in document order, and the class
\* each one carries.
AnimatedElements == <<"card1", "card2", "stat1">>
Elements == {AnimatedElements[i] : i \in 1..Len(AnimatedElements)}
ClassOf(e) == IF e \in {"card1", "card2"} THEN "course-card" ELSE "stat-item"

\* document.querySelectorAll for a list of class selectors
querySelectorAll(selectors) ==
    SelectSeq(AnimatedElements, LAMBDA e : ClassOf(e) \in selectors)

\* main.js SELECTORS.ANIMATED_ELEMENTS
ANIMATED_ELEMENTS == {"course-card", "testimonial-card", "stat-item", "trust-badge"}

\* animations.js: the selector and the animation class of each init*
\* function over element lists, in the order init() calls them.
AnimationGroups ==
    <<[step |-> "initCourseCardAnimations",
       selector |-> "course-card",      animationClass |-> "reveal"],
      [step |-> "initTestimonialAnimations",
       selector |-> "testimonial-card", animationClass |-> "reveal-scale"],
      [step |-> "initStatAnimations",
       selector |-> "stat-item",        animationClass |-> "reveal"],
      [step |-> "initTrustBadgeAnimations",
       selector |-> "trust-badge",      animationClass |-> "reveal"],
      [step |-> "initSectionHeaderAnimations",
       selector |-> "section-header",   animationClass |-> "reveal"]>>

\* shouldDisableAnimations() when the media query matches as given
shouldDisableAnimations(matches) == noAnimations \/ matches

\* The animation state as one value.
Anim ==
    [classList |-> classList, styleOpacity |-> styleOpacity,
     animationDelay |-> animationDelay, mainTargets |-> mainTargets,
     observers |-> observers, animatedElements |-> animatedElements,
     isInitialized |-> isInitialized, revealTimers |-> revealTimers,
     delayWrittenBy |-> delayWrittenBy, revealedAgain |-> revealedAgain,
     revealedEarly |-> revealedEarly, revealedDisabled |-> revealedDisabled]

AnimBecomes(s) ==
    \E a \in {s} :
        /\ classList' = a.classList
        /\ styleOpacity' = a.styleOpacity
        /\ animationDelay' = a.animationDelay
        /\ mainTargets' = a.mainTargets
        /\ observers' = a.observers
        /\ animatedElements' = a.animatedElements
        /\ isInitialized' = a.isInitialized
        /\ revealTimers' = a.revealTimers
        /\ delayWrittenBy' = a.delayWrittenBy
        /\ revealedAgain' = a.revealedAgain
        /\ revealedEarly' = a.revealedEarly
        /\ revealedDisabled' = a.revealedDisabled

\* What an observer reports for an element in the viewport's present state.
Reported(e) == IF intersecting[e] THEN "in" ELSE "out"

\* An observer has a notification to deliver: observers deliver within the
\* frame, before 50 ms have passed or the viewport changes again.
NotificationPending ==
    \/ \E e \in DOMAIN mainTargets : mainTargets[e] # Reported(e)
    \/ \E k \in 1..Len(observers) :
          \E e \in DOMAIN observers[k].targets : observers[k].targets[e] # Reported(e)

\* observer.observe(element).  The first notification for a target that is
\* out of the viewport changes nothing (both callbacks skip entries that do
\* not intersect), so a new target counts as notified "out".
observe(targets, e) ==
    [x \in DOMAIN targets \cup {e} |-> IF x \in DOMAIN targets THEN targets[x] ELSE "out"]

\* observer.unobserve(element)
unobserve(targets, e) == [x \in DOMAIN targets \ {e} |-> targets[x]]

\* parseInt(element.getAttribute('data-animation-delay') || '0', 10)
ParsedDelay(a, e) == IF a.animationDelay[e] < 0 THEN 0 ELSE a.animationDelay[e]

\* setTimeout(callback, delay) for a reveal; live says that the observer the
\* callback closes over has not been disconnected.
scheduleReveal(a, script, e) ==
    [a EXCEPT !.revealTimers = Append(@, [script |-> script, element |-> e,
                                          delay |-> ParsedDelay(a, e),
                                          left |-> ParsedDelay(a, e), live |-> TRUE])]

\* ---- main.js

\* initScrollAnimations: the forEach over the matched elements.
RECURSIVE mainPrepare(_, _, _)
mainPrepare(a, elements, index) ==
    IF elements = <<>>
    THEN a
    ELSE LET e == Head(elements)
         IN  mainPrepare([a EXCEPT !.styleOpacity[e] = "0",
                                   !.animationDelay[e] = index * ANIMATION_STAGGER,
                                   !.delayWrittenBy[e] = @ \cup {"main.js"},
                                   !.mainTargets = observe(@, e)],
                         Tail(elements), index + 1)

\* initScrollAnimations()
initScrollAnimations(a, matches) ==
    IF shouldDisableAnimations(matches)
    THEN a
    ELSE mainPrepare(a, querySelectorAll(ANIMATED_ELEMENTS), 0)

\* main.js handleIntersection, for one entry.  entry.target.observer is not
\* a property of an element, so the optional chain unobserves nothing.
mainHandleIntersection(a, e, isIntersecting) ==
    IF isIntersecting THEN scheduleReveal(a, "main.js", e) ELSE a

\* ---- animations.js

\* prepareElement(element, animationClass, index)
prepareElement(a, e, animationClass, index) ==
    [a EXCEPT !.classList[e] = @ \cup {animationClass},
              !.animationDelay[e] = index * STAGGER_DELAY,
              !.delayWrittenBy[e] = @ \cup {"animations.js"}]

\* prepareElements(elements, animationClass)
RECURSIVE prepareElements(_, _, _, _)
prepareElements(a, elements, animationClass, index) ==
    IF elements = <<>>
    THEN a
    ELSE prepareElements(prepareElement(a, Head(elements), animationClass, index),
                         Tail(elements), animationClass, index + 1)

\* initCourseCardAnimations and the init* functions of the same shape:
\* prepare the group's elements, create an observer and observe them.
initGroupAnimations(a, group) ==
    LET elements == querySelectorAll({group.selector})
        found == {elements[i] : i \in 1..Len(elements)}
    IN  IF elements = <<>>
        THEN a
        ELSE [prepareElements(a, elements, group.animationClass, 0)
                EXCEPT !.observers = Append(@, [group |-> group.selector,
                                                targets |-> [e \in found |-> "out"]])]

RECURSIVE initGroups(_, _)
initGroups(a, groups) ==
    IF groups = <<>> THEN a
    ELSE initGroups(initGroupAnimations(a, Head(groups)), Tail(groups))

\* init(), where done are the init* functions that ran to their end: each
\* catches its own exceptions, so init() goes on to the next and sets
\* isInitialized in any case.
initSteps(a, matches, done) ==
    IF a.isInitialized
    THEN a
    ELSE IF shouldDisableAnimations(matches)
    THEN a
    ELSE [initGroups(a, SelectSeq(AnimationGroups, LAMBDA g : g.step \in done))
            EXCEPT !.isInitialized = TRUE]

\* init() when no init* function throws
init(a, matches) ==
    initSteps(a, matches, {AnimationGroups[i].step : i \in 1..Len(AnimationGroups)})

\* A cleanup that disconnects the observers but keeps them in
\* animationState.observers: a variant that C22 rules out.
cleanup_KeepsObservers(a) ==
    [a EXCEPT !.isInitialized = FALSE,
              !.revealTimers = [i \in 1..Len(@) |->
                                  IF @[i].script = "animations.js"
                                  THEN [@[i] EXCEPT !.live = FALSE] ELSE @[i]]]

\* A cleanup that also cancels the pending reveal timers of animations.js:
\* a variant that C35 rules out.
cleanup_CancelsReveals(a) ==
    [a EXCEPT !.observers = <<>>,
              !.isInitialized = FALSE,
              !.revealTimers = SelectSeq(@, LAMBDA t : t.script # "animations.js")]

\* cleanup(): every observer is disconnected; pending reveal timers stay.
cleanup(a) ==
    [a EXCEPT !.observers = <<>>,
              !.isInitialized = FALSE,
              !.revealTimers = [i \in 1..Len(@) |->
                                  IF @[i].script = "animations.js"
                                  THEN [@[i] EXCEPT !.live = FALSE] ELSE @[i]]]

\* handleMotionPreferenceChange()
handleMotionPreferenceChange(a, matches) ==
    LET shouldDisable == shouldDisableAnimations(matches)
    IN  IF shouldDisable /\ a.isInitialized
        THEN cleanup(a)
        ELSE IF ~shouldDisable /\ ~a.isInitialized
        THEN init(a, matches)
        ELSE a

\* animations.js handleIntersection, for one entry.
handleIntersection(a, e, isIntersecting) ==
    IF isIntersecting /\ e \notin a.animatedElements
    THEN scheduleReveal(a, "animations.js", e)
    ELSE a

\* The position of an element in a list of elements, counted from 0.
IndexIn(elements, e) == (CHOOSE i \in 1..Len(elements) : elements[i] = e) - 1

\* The stagger delay a script gives an element: main.js counts the element's
\* index among all the elements it animates, animations.js within the
\* element's own group.
StaggerOf(script, e) ==
    IF script = "main.js"
    THEN IndexIn(querySelectorAll(ANIMATED_ELEMENTS), e) * ANIMATION_STAGGER
    ELSE IndexIn(querySelectorAll({ClassOf(e)}), e) * STAGGER_DELAY

\* Whether a script has revealed an element: main.js by the inline style,
\* animations.js by its set of animated elements.
RevealedBy(a, script, e) ==
    IF script = "main.js" THEN a.styleOpacity[e] = "1" ELSE e \in a.animatedElements

\* History: a script executes the reveal of e, scheduled by a notification
\* with the given delay.
NoteReveal(a, script, e, delay) ==
    [a EXCEPT !.revealedAgain = @ \/ RevealedBy(a, script, e),
              !.revealedEarly = @ \/ delay < StaggerOf(script, e),
              !.revealedDisabled = @ \/ shouldDisableAnimations(reducedMotion)]

\* animateElement(element)
animateElement(a, e) == [a EXCEPT !.classList[e] = @ \cup {"active"}]

\* markAsAnimated(element)
markAsAnimated(a, e) == [a EXCEPT !.animatedElements = @ \cup {e}]

\* The timer callback of animations.js handleIntersection.
revealCallback(a, e, live) ==
    LET animated == markAsAnimated(animateElement(a, e), e)
    IN  IF live
        THEN [animated EXCEPT
                !.observers = [k \in 1..Len(@) |->
                                 [@[k] EXCEPT !.targets = unobserve(@, e)]]]
        ELSE animated

\* ------------------------------------------- page load and navigation

\* main.js CONFIG.SCROLL_OFFSET
SCROLL_OFFSET == 80

\* Hostnames the page is served from.
Hostnames == {"localhost", "127.0.0.1", "example.com"}

\* The hostnames on which the scripts expose their debug objects.
DebugHosts == {"localhost", "127.0.0.1"}

\* if (hostname === 'localhost' || hostname === '127.0.0.1') window[name] = ...
debugGlobal_AnyHost(host, name, defined) == defined \cup {name}

debugGlobal(host, name, defined) ==
    IF host \in DebugHosts THEN defined \cup {name} ELSE defined

\* The steps of each script's init in call order.  regions says where the
\* statements of a step are: "try" inside the step's own try block, "open"
\* outside of it (initScrollAnimations calls shouldDisableAnimations()
\* before its try; the statements of interactions.js init have no try
\* of their own).
MainSteps ==
    <<[name |-> "initSmoothScroll",     regions |-> {"try"}],
      [name |-> "initFormValidation",   regions |-> {"try"}],
      [name |-> "initScrollAnimations", regions |-> {"open", "try"}],
      [name |-> "initMobileMenu",       regions |-> {"try"}]>>

InteractionsSteps ==
    <<[name |-> "ButtonStateManager",    regions |-> {"open"}],
      [name |-> "FormSubmissionManager", regions |-> {"open"}]>>

AnimationsSteps ==
    [i \in 1..Len(AnimationGroups) |-> [name |-> AnimationGroups[i].step, regions |-> {"try"}]]
    \o <<[name |-> "initAboutSectionAnimations",   regions |-> {"try"}],
         [name |-> "initContactSectionAnimations", regions |-> {"try"}]>>

ScriptSteps ==
    [s \in {"main.js", "interactions.js", "animations.js"} |->
        CASE s = "main.js" -> MainSteps
          [] s = "interactions.js" -> InteractionsSteps
          [] OTHER -> AnimationsSteps]

\* No statement throws.
NoFault == [script |-> "", step |-> "", region |-> ""]

\* The statements that may throw during initialisation: one region of one
\* step, or the checks animations.js init() makes before its try block.
Faults ==
    {NoFault}
    \cup UNION {UNION {{[script |-> s, step |-> ScriptSteps[s][i].name, region |-> r] :
                           r \in ScriptSteps[s][i].regions} :
                        i \in 1..Len(ScriptSteps[s])} :
                 s \in DOMAIN ScriptSteps}
    \cup {[script |-> "animations.js", step |-> "init", region |-> "open"]}

\* The result of calling no step.
NoRun == [entered |-> {}, done |-> {}, escaped |-> FALSE]

\* The steps of a script called one after the other while fault throws: an
\* exception in a try region ends that step only, one in an open region
\* leaves the step and ends the sequence.
RECURSIVE runSteps(_, _, _)
runSteps(steps, script, fault) ==
    IF steps = <<>>
    THEN NoRun
    ELSE LET step == Head(steps)
             rest == runSteps(Tail(steps), script, fault)
         IN  IF fault.script = script /\ fault.step = step.name
             THEN IF fault.region = "try"
                  THEN [rest EXCEPT !.entered = @ \cup {step.name}]
                  ELSE [entered |-> {step.name}, done |-> {}, escaped |-> TRUE]
             ELSE [rest EXCEPT !.entered = @ \cup {step.name},
                               !.done = @ \cup {step.name}]

\* The page's in-page targets and the links of its navigation menu: an
\* href is null (<<>>), "#" followed by an id, or another address.
TargetIds == {"about", "contact"}
Hrefs == {<<>>, <<"#", "about">>, <<"#", "contact">>, <<"#", "missing">>, <<"#">>,
          <<"courses.html">>}
\* getBoundingClientRect().top + window.pageYOffset of a target
TargetTops == {0, 80, 200}

\* href.startsWith('#')
startsWith(href, c) == Len(href) >= 1 /\ href[1] = c
\* href.substring(1)
substring(href) == Tail(href)
\* document.getElementById(id)
getElementById(id) == IF Len(id) = 1 /\ id[1] \in TargetIds THEN id[1] ELSE "null"

\* What a click handler can change, as one value.
Nav ==
    [scrollRequest |-> scrollRequest, url |-> url, focused |-> focused,
     tabindex |-> tabindex, navEffects |-> navEffects,
     defaultPrevented |-> defaultPrevented, logged |-> logged]

NavBecomes(s) ==
    \E n \in {s} :
        /\ scrollRequest' = n.scrollRequest
        /\ url' = n.url
        /\ focused' = n.focused
        /\ tabindex' = n.tabindex
        /\ navEffects' = n.navEffects
        /\ defaultPrevented' = n.defaultPrevented
        /\ logged' = n.logged

preventDefault(n) ==
    [n EXCEPT !.defaultPrevented = TRUE, !.navEffects = Append(@, "preventDefault")]
scrollTo(n, top) ==
    [n EXCEPT !.scrollRequest = <<top>>, !.navEffects = Append(@, "scrollTo")]
pushState(n, href) ==
    [n EXCEPT !.url = href, !.navEffects = Append(@, "pushState")]
setAttribute(n, element) ==
    [n EXCEPT !.tabindex = @ \cup {element}, !.navEffects = Append(@, "setAttribute")]
focus(n, element) ==
    [n EXCEPT !.focused = element, !.navEffects = Append(@, "focus")]
log(n, level) == [n EXCEPT !.logged = level]

\* A handler that moves the focus before it scrolls: a variant that C24
\* rules out.
handleSmoothScroll_FocusFirst(n, href, top) ==
    IF href = <<>> \/ ~startsWith(href, "#")
    THEN n
    ELSE LET targetElement == getElementById(substring(href))
         IN  IF targetElement = "null"
             THEN log(preventDefault(n), "warn")
             ELSE log(pushState(scrollTo(focus(setAttribute(preventDefault(n),
                          targetElement), targetElement), top - SCROLL_OFFSET), href), "info")

\* A handler that updates the URL before it looks the target up: a variant
\* that C25 rules out.
handleSmoothScroll_UrlFirst(n, href, top) ==
    IF href = <<>> \/ ~startsWith(href, "#")
    THEN n
    ELSE LET targetElement == getElementById(substring(href))
         IN  IF targetElement = "null"
             THEN log(pushState(preventDefault(n), href), "warn")
             ELSE log(focus(setAttribute(scrollTo(pushState(preventDefault(n), href),
                          top - SCROLL_OFFSET), targetElement), targetElement), "info")

\* main.js handleSmoothScroll(event) for a link with the given href whose
\* target, if any, is at the given position.
handleSmoothScroll(n, href, top) ==
    IF href = <<>> \/ ~startsWith(href, "#")
    THEN n
    ELSE LET targetElement == getElementById(substring(href))
         IN  IF targetElement = "null"
             THEN log(preventDefault(n), "warn")
             ELSE log(focus(setAttribute(pushState(scrollTo(preventDefault(n),
                          top - SCROLL_OFFSET), href), targetElement), targetElement), "info")

\* The handlers and timer callbacks of the three scripts.  Each entry lists
\* the handler's regions in source order and says for each whether it lies
\* in a try block whose catch handles the exception.
HandlerRegions ==
    [handleSmoothScroll     |-> <<FALSE, TRUE>>,
     handleFormSubmit       |-> <<FALSE, TRUE, FALSE>>,
     blurListener           |-> <<FALSE>>,
     inputListener          |-> <<FALSE>>,
     mainResetTimer         |-> <<FALSE>>,
     mainHandleIntersection |-> <<FALSE>>,
     mainRevealTimer        |-> <<FALSE>>,
     handleSubmit           |-> <<FALSE, TRUE, FALSE>>,
     stateTimeoutTimer      |-> <<FALSE>>,
     handleIntersection     |-> <<FALSE>>,
     revealTimer            |-> <<FALSE>>]

\* The listener or observer a handler runs for has been set up.
Registered(h) ==
    CASE h = "handleSmoothScroll" -> "click" \in listeners
      [] h \in {"handleFormSubmit", "mainResetTimer"} -> "main.submit" \in listeners
      [] h = "blurListener" -> "main.blur" \in listeners
      [] h = "inputListener" -> "main.input" \in listeners
      [] h \in {"mainHandleIntersection", "mainRevealTimer"} -> DOMAIN mainTargets # {}
      [] h \in {"handleSubmit", "stateTimeoutTimer"} -> "interactions.submit" \in listeners
      [] OTHER -> observers # <<>>

\* A fault is reached when the statement that throws is executed at all.
Reached(fault) ==
    CASE fault.script = "main.js" ->
           (fault.step = "initScrollAnimations" /\ fault.region = "try")
              => ~shouldDisableAnimations(reducedMotion)
      [] fault.script = "interactions.js" -> formPresent /\ buttonPresent
      [] fault.script = "animations.js" ->
           fault.step = "init" \/ ~shouldDisableAnimations(reducedMotion)
      [] OTHER -> FALSE

\* No link has been clicked.
InitNav ==
    /\ scrollRequest = <<>>
    /\ url = <<>>
    /\ focused = "null"
    /\ tabindex = {}
    /\ navEffects = <<>>
    /\ defaultPrevented = FALSE
    /\ logged = ""
    /\ lastClick = [href |-> <<>>, top |-> 0]
    /\ clicks = 0

\* The state before the scripts run.
InitShell(host, form, button) ==
    /\ hostname = host
    /\ formPresent = form
    /\ buttonPresent = button
    /\ phase = "parsed"
    /\ failed = ""
    /\ entered = {}
    /\ listeners = {}
    /\ managers = {}
    /\ globals = {}
    /\ uncaught = {}
    /\ caught = {}
    /\ handlerFaults = 0
    /\ InitNav

\* The state once the scripts have run on the page as delivered, on a
\* public host.
InitShellExecuted ==
    /\ hostname = "example.com"
    /\ formPresent = TRUE
    /\ buttonPresent = TRUE
    /\ phase = "executed"
    /\ failed = ""
    /\ entered = {}
    /\ listeners = {}
    /\ managers = {}
    /\ globals = {}
    /\ uncaught = {}
    /\ caught = {}
    /\ handlerFaults = 0
    /\ InitNav

\* The same page once every init function has run.
InitShellReady ==
    /\ hostname = "example.com"
    /\ formPresent = TRUE
    /\ buttonPresent = TRUE
    /\ phase = "ready"
    /\ failed = ""
    /\ entered = UNION {{ScriptSteps[x][i].name : i \in 1..Len(ScriptSteps[x])} :
                          x \in DOMAIN ScriptSteps}
    /\ listeners = {"click", "main.submit", "main.blur", "main.input",
                    "interactions.submit"}
    /\ managers = {"buttonManager", "formManager"}
    /\ globals = {}
    /\ uncaught = {}
    /\ caught = {}
    /\ handlerFaults = 0
    /\ InitNav

\* The three scripts run: main.js and animations.js expose their debug
\* objects and every script registers its DOMContentLoaded listener.
ScriptsExecute ==
    /\ phase = "parsed"
    /\ phase' = "executed"
    /\ globals' = debugGlobal(hostname, "AnimationsModule",
                              debugGlobal(hostname, "ProgrammingSchool", globals))
    /\ UNCHANGED <<pageVars, animVars, navVars, hostname, formPresent, buttonPresent,
                   failed, entered, listeners, managers, uncaught, caught, handlerFaults>>

\* DOMContentLoaded while the statement named by fault throws: the init
\* functions of the three scripts run, main.js and animations.js in the
\* order of their script elements.
Load(fault, mainFirst) ==
    /\ phase = "executed"
    /\ ~loaded
    /\ phase' = "ready"
    /\ loaded' = TRUE
    /\ LET thrown == IF Reached(fault) THEN fault ELSE NoFault
           precheck == thrown.script = "animations.js" /\ thrown.step = "init"
           main == runSteps(MainSteps, "main.js", thrown)
           inter == IF formPresent /\ buttonPresent
                    THEN runSteps(InteractionsSteps, "interactions.js", thrown)
                    ELSE NoRun
           anim == IF precheck \/ shouldDisableAnimations(reducedMotion)
                   THEN NoRun
                   ELSE runSteps(AnimationsSteps, "animations.js", thrown)
           mainPart(a) == IF "initScrollAnimations" \in main.done
                          THEN initScrollAnimations(a, reducedMotion)
                          ELSE a
           animPart(a) == IF precheck THEN a ELSE initSteps(a, reducedMotion, anim.done)
       IN  /\ failed' = thrown.step
           /\ entered' = main.entered \cup inter.entered \cup anim.entered
           /\ listeners' =
                (IF "initSmoothScroll" \in main.done THEN {"click"} ELSE {})
                \cup (IF "initFormValidation" \in main.done /\ formPresent
                      THEN {"main.submit", "main.blur", "main.input"} ELSE {})
                \cup (IF "FormSubmissionManager" \in inter.done
                      THEN {"interactions.submit"} ELSE {})
           /\ managers' =
                (IF "ButtonStateManager" \in inter.done THEN {"buttonManager"} ELSE {})
                \cup (IF "FormSubmissionManager" \in inter.done THEN {"formManager"} ELSE {})
           /\ globals' = IF "FormSubmissionManager" \in inter.done
                         THEN debugGlobal(hostname, "ProgrammingSchoolInteractions", globals)
                         ELSE globals
           /\ uncaught' = IF precheck THEN uncaught \cup {"init"} ELSE uncaught
           /\ caught' = IF thrown # NoFault /\ ~precheck
                        THEN caught \cup {thrown.step} ELSE caught
           /\ IF mainFirst
              THEN AnimBecomes(animPart(mainPart(Anim)))
              ELSE AnimBecomes(mainPart(animPart(Anim)))
    /\ UNCHANGED <<pageVars, reducedMotion, noAnimations, intersecting,
                   viewportChanges, preferenceChanges, hostname, formPresent,
                   buttonPresent, handlerFaults, navVars>>

\* A click on a navigation link.
Click(href, top) ==
    /\ phase = "ready"
    /\ "click" \in listeners
    /\ clicks < MaxClicks
    /\ clicks' = clicks + 1
    /\ lastClick' = [href |-> href, top |-> top]
    /\ NavBecomes(handleSmoothScroll(
                    [Nav EXCEPT !.navEffects = <<>>, !.defaultPrevented = FALSE,
                                !.logged = ""], href, top))
    /\ UNCHANGED <<pageVars, animVars, loadVars>>

\* A handler runs and a statement in its region i throws: the exception is
\* handled by the catch of the try block around it, or it propagates out of
\* the handler.
HandlerThrows(h, i) ==
    /\ phase = "ready"
    /\ Registered(h)
    /\ i \in 1..Len(HandlerRegions[h])
    /\ handlerFaults < MaxHandlerFaults
    /\ handlerFaults' = handlerFaults + 1
    /\ IF HandlerRegions[h][i]
       THEN caught' = caught \cup {h} /\ UNCHANGED uncaught
       ELSE uncaught' = uncaught \cup {h} /\ UNCHANGED caught
    /\ UNCHANGED <<pageVars, animVars, navVars, hostname, formPresent, buttonPresent,
                   phase, failed, entered, listeners, managers, globals>>

\* Loading the page, with exceptions thrown during and after initialisation.
NextLoad ==
    \/ ScriptsExecute
    \/ \E fault \in Faults : \E mainFirst \in BOOLEAN : Load(fault, mainFirst)
    \/ \E h \in DOMAIN HandlerRegions : \E i \in 1..3 : HandlerThrows(h, i)

\* Using the navigation menu of the loaded page.
NextNavigation == \E href \in Hrefs : \E top \in TargetTops : Click(href, top)

\* ---- the page

\* The animation state before DOMContentLoaded.
InitAnimationState(matches, marker) ==
    /\ reducedMotion = matches
    /\ noAnimations = marker
    /\ loaded = FALSE
    /\ intersecting = [e \in Elements |-> FALSE]
    /\ classList = [e \in Elements |-> {}]
    /\ styleOpacity = [e \in Elements |-> ""]
    /\ animationDelay = [e \in Elements |-> -1]
    /\ mainTargets = <<>>
    /\ observers = <<>>
    /\ animatedElements = {}
    /\ isInitialized = FALSE
    /\ revealTimers = <<>>
    /\ viewportChanges = 0
    /\ preferenceChanges = 0
    /\ delayWrittenBy = [e \in Elements |-> {}]
    /\ revealedAgain = FALSE
    /\ revealedEarly = FALSE
    /\ revealedDisabled = FALSE

\* A reveal timer is due: its callback runs before the next frame, that is
\* before the viewport or the preference changes again.
RevealTimerDue == \E i \in 1..Len(revealTimers) : revealTimers[i].left = 0

\* DOMContentLoaded when no statement throws.
DOMContentLoaded(mainFirst) == Load(NoFault, mainFirst)

\* The visitor scrolls: an element enters or leaves the viewport.
Scroll(e) ==
    /\ loaded
    /\ ~NotificationPending
    /\ ~RevealTimerDue
    /\ viewportChanges < MaxViewportChanges
    /\ viewportChanges' = viewportChanges + 1
    /\ intersecting' = [intersecting EXCEPT ![e] = ~@]
    /\ UNCHANGED <<pageVars, shellVars, reducedMotion, noAnimations, loaded, elementVars,
                   observerVars, preferenceChanges, delayWrittenBy, revealedAgain,
                   revealedEarly, revealedDisabled>>

\* main.js's observer notifies its callback of a target whose visibility is
\* not the one it reported last.
NotifyMain(e) ==
    /\ e \in DOMAIN mainTargets
    /\ mainTargets[e] # Reported(e)
    /\ AnimBecomes(mainHandleIntersection(
                     [Anim EXCEPT !.mainTargets[e] = Reported(e)], e, intersecting[e]))
    /\ UNCHANGED <<pageVars, shellVars, platformVars, viewportChanges, preferenceChanges>>

\* An observer of animations.js notifies its callback in the same way.
NotifyAnimations(k, e) ==
    /\ k \in 1..Len(observers)
    /\ e \in DOMAIN observers[k].targets
    /\ observers[k].targets[e] # Reported(e)
    /\ AnimBecomes(handleIntersection(
                     [Anim EXCEPT !.observers[k].targets[e] = Reported(e)],
                     e, intersecting[e]))
    /\ UNCHANGED <<pageVars, shellVars, platformVars, viewportChanges, preferenceChanges>>

\* The reduced-motion preference changes: the change listener of
\* animations.js runs; main.js has none.
PreferenceChange ==
    /\ loaded
    /\ ~NotificationPending
    /\ ~RevealTimerDue
    /\ preferenceChanges < MaxPreferenceChanges
    /\ preferenceChanges' = preferenceChanges + 1
    /\ reducedMotion' = ~reducedMotion
    /\ AnimBecomes(handleMotionPreferenceChange(Anim, ~reducedMotion))
    /\ UNCHANGED <<pageVars, shellVars, noAnimations, loaded, intersecting, viewportChanges>>

\* The reveal timer the event loop runs next.
RevealDue(i) ==
    /\ i \in 1..Len(revealTimers)
    /\ revealTimers[i].left = 0
    /\ \A j \in 1..(i - 1) : revealTimers[j].left # 0

\* The animation state as the callback of reveal timer i finds it.
RevealFired(i) ==
    [Anim EXCEPT !.revealTimers = SubSeq(@, 1, i - 1) \o SubSeq(@, i + 1, Len(@))]

\* 50 ms pass: no reveal timer is due.
RevealTick ==
    /\ revealTimers # <<>>
    /\ ~NotificationPending
    /\ ~RevealTimerDue
    /\ revealTimers' = [i \in 1..Len(revealTimers) |->
                          [revealTimers[i] EXCEPT !.left = @ - 1]]
    /\ UNCHANGED <<pageVars, shellVars, platformVars, elementVars, mainTargets, observers,
                   animatedElements, isInitialized, animHistoryVars>>

\* main.js: the timer of handleIntersection shows the element.
MainRevealFires(i) ==
    /\ RevealDue(i)
    /\ revealTimers[i].script = "main.js"
    /\ LET e == revealTimers[i].element
       IN  AnimBecomes([NoteReveal(RevealFired(i), "main.js", e, revealTimers[i].delay)
                          EXCEPT !.styleOpacity[e] = "1"])
    /\ UNCHANGED <<pageVars, shellVars, platformVars, viewportChanges, preferenceChanges>>

\* animations.js: the timer of handleIntersection animates the element.
RevealFires(i) ==
    /\ RevealDue(i)
    /\ revealTimers[i].script = "animations.js"
    /\ LET e == revealTimers[i].element
       IN  AnimBecomes(revealCallback(
                         NoteReveal(RevealFired(i), "animations.js", e, revealTimers[i].delay),
                         e, revealTimers[i].live))
    /\ UNCHANGED <<pageVars, shellVars, platformVars, viewportChanges, preferenceChanges>>

\* The page's animations over one page view.
NextAnimations ==
    \/ \E mainFirst \in BOOLEAN : DOMContentLoaded(mainFirst)
    \/ \E e \in Elements : Scroll(e)
    \/ \E e \in Elements : NotifyMain(e)
    \/ \E k \in 1..Len(observers) : \E e \in Elements : NotifyAnimations(k, e)
    \/ PreferenceChange
    \/ RevealTick
    \/ \E i \in 1..Len(revealTimers) : MainRevealFires(i)
    \/ \E i \in 1..Len(revealTimers) : RevealFires(i)


\* ------------------------------------------------------------ input values

NameA == <<"A">>
NameJaneDoe == <<"J", "a", "n", "e", " ", "D", "o", "e">>
NameJ4 == <<"J", "4">>
EmailX == <<"x">>
EmailOk == <<"a", "@", "b", ".", "c", "o">>
EmailNoDot == <<"a", "@", "b">>
EmailPadded == <<" ", "a", "@", "b", ".", "c", "o">>
PhoneBlank == <<" ">>
PhoneBad == <<"a", "b", "c">>
PhoneOk == <<"+", "1", " ", "(", "2", ")", "-", "3">>
Message5 == <<"h", "e", "l", "l", "o">>
Message10 == <<"h", "e", "l", "l", "o", " ", "t", "e", "a", "m">>
Message10Padded == <<"h", "e", "l", "l", "o", " ", "y", "o", "u", " ">>

\* The values a visitor types while field validation is examined.
ValidationValues(f) ==
    CASE f = "name"    -> {<<>>, NameA, NameJaneDoe, NameJ4}
      [] f = "email"   -> {<<>>, EmailX, EmailOk, EmailNoDot, EmailPadded}
      [] f = "phone"   -> {<<>>, PhoneBlank, PhoneBad, PhoneOk}
      [] f = "message" -> {<<>>, Message5, Message10, Message10Padded}

\* The values a visitor types in the message field while a submission is
\* followed through its timers.
MessageValues == {<<>>, Message10}

\* -------------------------------------------------------------------- Init

\* History of one submit event: the state ButtonStateManager was in when the
\* event was delivered ("" before delivery), whether validateForm rejected
\* the form, and how often each button state was applied for it.
NoEntries ==
    [at |-> "", rejected |-> FALSE, idle |-> 0, loading |-> 0, success |-> 0, error |-> 0]

\* The page after both scripts have initialised, with the given values in
\* the inputs: the ButtonStateManager constructor has run init(), which
\* calls setState(IDLE).
InitForm(typed) ==
    /\ values = typed
    /\ fieldErrors = [f \in Fields |-> <<>>]
    /\ errorClass = [f \in Fields |-> FALSE]
    /\ ariaInvalid = [f \in Fields |-> FALSE]
    /\ btnClass = {"idle"}
    /\ btnDisabled = FALSE
    /\ btnContent = OriginalContent
    /\ dataOriginalText = ""
    /\ currentState = "idle"
    /\ stateTimeout = 0
    /\ isSubmitting = FALSE
    /\ formErrors = 0
    /\ formErrorMessages = <<>>
    /\ timers = <<>>
    /\ dispatch = "none"
    /\ submitCount = 0
    /\ submits = [i \in 1..MaxSubmits |-> NoEntries]
    /\ staleFired = FALSE
    /\ last = [op |-> "init", field |-> "", ok |-> TRUE, hadError |-> FALSE]

\* The form as above, in a page whose animated elements are as delivered.
InitPage(typed) ==
    InitForm(typed) /\ InitAnimationState(FALSE, FALSE) /\ InitShellReady

\* The page as loaded: every input empty.
Init == InitPage([f \in Fields |-> <<>>])

\* The page once the visitor has typed a valid name and email.
InitTyped ==
    InitPage([f \in Fields |->
                CASE f = "name" -> NameJaneDoe [] f = "email" -> EmailOk [] OTHER -> <<>>])

\* The page once the visitor has typed a valid name and email and has
\* either left the message empty or typed a valid one.
InitFilled ==
    \E m \in MessageValues :
        InitPage([f \in Fields |->
                    CASE f = "name" -> NameJaneDoe [] f = "email" -> EmailOk
                      [] f = "message" -> m [] OTHER -> <<>>])

\* ------------------------------------------------------------- user events

\* An input event on a field: the listener of initFormValidation calls
\* clearFieldError(input).
Input(f, v) ==
    /\ dispatch = "none"
    /\ v # values[f]
    /\ Becomes(clearFieldError([Cur EXCEPT !.values[f] = v], f))
    /\ last' = [op |-> "input", field |-> f, ok |-> TRUE,
                hadError |-> fieldErrors[f] # <<>>]
    /\ UNCHANGED <<dispatch, submitCount>>

\* A blur listener that validates the whole form instead of the field left:
\* a variant that C12 rules out.
Blur_ValidatesForm(f) ==
    /\ dispatch = "none"
    /\ LET r == validateForm(Cur)
       IN  /\ Becomes(r.page)
           /\ last' = [op |-> "blur", field |-> f, ok |-> r.ok,
                       hadError |-> fieldErrors[f] # <<>>]
    /\ UNCHANGED <<dispatch, submitCount>>

\* A blur event on a field: the listener calls validateField(input).
Blur(f) ==
    /\ dispatch = "none"
    /\ LET r == validateField(Cur, f)
       IN  /\ Becomes(r.page)
           /\ last' = [op |-> "blur", field |-> f, ok |-> r.ok,
                       hadError |-> fieldErrors[f] # <<>>]
    /\ UNCHANGED <<dispatch, submitCount>>

\* A submit event is delivered to the form; its listeners run in
\* registration order.
SubmitEvent(limit) ==
    /\ dispatch = "none"
    /\ submitCount < limit
    /\ submitCount' = submitCount + 1
    /\ dispatch' = "main"
    /\ submits' = IF submitCount' \in DOMAIN submits
                  THEN [submits EXCEPT ![submitCount'].at = currentState]
                  ELSE submits
    /\ UNCHANGED <<formVars, buttonVars, managerVars, bannerVars, timers,
                   staleFired, last, animVars, shellVars>>

\* main.js handleFormSubmit(event), up to its await.
handleFormSubmit ==
    /\ dispatch = "main"
    /\ LET r == validateForm(clearAllErrors(Cur))
           rejected == [r.page EXCEPT
                          !.submits = IF submitCount \in DOMAIN @
                                      THEN [@ EXCEPT ![submitCount].rejected = TRUE]
                                      ELSE @]
       IN  /\ IF ~r.ok
              THEN Becomes(rejected)
              ELSE Becomes(setTimeout(setButtonState(r.page, "loading", submitCount),
                                      "mainSim", MAIN_SIM_DELAY, submitCount))
           /\ last' = [op |-> "handleFormSubmit", field |-> "", ok |-> r.ok,
                       hadError |-> FALSE]
    /\ dispatch' = "interactions"
    /\ UNCHANGED submitCount

\* interactions.js FormSubmissionManager.handleSubmit(event), up to its await.
\* The simulated delay is at least LOADING_MIN_DURATION, so the extra
\* this.delay() is never awaited.
handleSubmit ==
    /\ dispatch = "interactions"
    /\ IF isSubmitting \/ isLoading(Cur)
       THEN Becomes(Cur)
       ELSE \E delay \in INTER_SIM_MIN..INTER_SIM_MAX :
              /\ delay >= LOADING_MIN_DURATION
              /\ Becomes(setTimeout(
                     setState([Cur EXCEPT !.isSubmitting = TRUE], "loading", submitCount),
                     "interSim", delay, submitCount))
    /\ dispatch' = "none"
    /\ UNCHANGED <<submitCount, last>>

\* interactions.js FormSubmissionManager.handleSubmit(event) when a statement
\* of its try block throws before the await: the catch block calls
\* handleError(error) and the finally block clears isSubmitting; no
\* simulated submission is started.
handleSubmitFails ==
    /\ dispatch = "interactions"
    /\ ~(isSubmitting \/ isLoading(Cur))
    /\ LET handled == handleError([Cur EXCEPT !.isSubmitting = TRUE], submitCount)
       IN  Becomes([handled EXCEPT !.isSubmitting = FALSE])
    /\ dispatch' = "none"
    /\ UNCHANGED <<submitCount, last>>


\* ---------------------------------------------------------- timer callbacks

\* The timer the event loop runs next: the first registered among those due.
Due(i) ==
    /\ i \in 1..Len(timers)
    /\ timers[i].left = 0
    /\ \A j \in 1..(i - 1) : timers[j].left # 0

\* The page as the callback of timer i finds it: the timer is no longer pending.
Fired(i) ==
    [Cur EXCEPT !.timers = SubSeq(@, 1, i - 1) \o SubSeq(@, i + 1, Len(@)),
                !.staleFired = @ \/ (timers[i].kind \in DisplayKinds /\ timers[i].stale)]

\* Time passes: no timer is due, and every pending delay shrinks by one unit.
Tick ==
    /\ dispatch = "none"
    /\ timers # <<>>
    /\ \A i \in 1..Len(timers) : timers[i].left > 0
    /\ timers' = [i \in 1..Len(timers) |-> [timers[i] EXCEPT !.left = @ - 1]]
    /\ UNCHANGED <<formVars, buttonVars, managerVars, bannerVars, dispatch, historyVars,
                   animVars, shellVars>>

\* main.js: the timer of simulateFormSubmission settles the promise and
\* handleFormSubmit continues after its await (success or catch branch).
MainSubmissionSettles(i, resolved) ==
    /\ dispatch = "none"
    /\ Due(i)
    /\ timers[i].kind = "mainSim"
    /\ LET sid == timers[i].sid
       IN  IF resolved
           THEN Becomes(setTimeout(setButtonState(Fired(i), "success", sid),
                                   "mainReset", FORM_SUCCESS_DURATION, sid))
           ELSE Becomes(showFormError(
                          setTimeout(setButtonState(Fired(i), "error", sid),
                                     "mainDefault", FORM_SUCCESS_DURATION, sid)))
    /\ UNCHANGED <<dispatch, submitCount, last>>

\* main.js: the success branch's timer resets the form and the button.
MainResetFires(i) ==
    /\ dispatch = "none"
    /\ Due(i)
    /\ timers[i].kind = "mainReset"
    /\ Becomes(setButtonState(formReset(Fired(i)), "default", timers[i].sid))
    /\ UNCHANGED <<dispatch, submitCount, last>>

\* main.js: the catch branch's timer returns the button to its default.
MainDefaultFires(i) ==
    /\ dispatch = "none"
    /\ Due(i)
    /\ timers[i].kind = "mainDefault"
    /\ Becomes(setButtonState(Fired(i), "default", timers[i].sid))
    /\ UNCHANGED <<dispatch, submitCount, last>>

\* A handleSubmit without its finally block: a variant that C31 rules out.
SubmissionSettles_KeepsFlag(i, resolved) ==
    /\ dispatch = "none"
    /\ Due(i)
    /\ timers[i].kind = "interSim"
    /\ LET sid == timers[i].sid
       IN  Becomes(IF resolved THEN handleSuccess(Fired(i), sid)
                   ELSE handleError(Fired(i), sid))
    /\ UNCHANGED <<dispatch, submitCount, last>>

\* interactions.js: the timer of simulateSubmission settles the promise and
\* handleSubmit continues after its await, through its finally block.
SubmissionSettles(i, resolved) ==
    /\ dispatch = "none"
    /\ Due(i)
    /\ timers[i].kind = "interSim"
    /\ LET sid == timers[i].sid
           handled == IF resolved THEN handleSuccess(Fired(i), sid)
                      ELSE handleError(Fired(i), sid)
       IN  Becomes([handled EXCEPT !.isSubmitting = FALSE])
    /\ UNCHANGED <<dispatch, submitCount, last>>

\* interactions.js: the timer of setSuccessState / setErrorState.
StateTimeoutFires(i) ==
    /\ dispatch = "none"
    /\ Due(i)
    /\ timers[i].kind = "stateTimeout"
    /\ Becomes(setState(Fired(i), "idle", timers[i].sid))
    /\ UNCHANGED <<dispatch, submitCount, last>>

\* interactions.js: the timer of handleSuccess.
InterResetFires(i) ==
    /\ dispatch = "none"
    /\ Due(i)
    /\ timers[i].kind = "interReset"
    /\ Becomes(clearFormErrors(formReset(Fired(i))))
    /\ UNCHANGED <<dispatch, submitCount, last>>

\* interactions.js: the timer of showFormError removes its banner.
BannerRemoveFires(i) ==
    /\ dispatch = "none"
    /\ Due(i)
    /\ timers[i].kind = "bannerRemove"
    /\ Becomes([Fired(i) EXCEPT
                  !.formErrorMessages = SelectSeq(@, LAMBDA b : b # timers[i].id)])
    /\ UNCHANGED <<dispatch, submitCount, last>>

\* ------------------------------------------------------------ specification

\* A submission followed through its timers.
Next ==
    \/ \E v \in MessageValues : Input("message", v)
    \/ SubmitEvent(MaxSubmits)
    \/ handleFormSubmit
    \/ handleSubmit
    \/ Tick
    \/ \E i \in 1..Len(timers) : \E resolved \in BOOLEAN : MainSubmissionSettles(i, resolved)
    \/ \E i \in 1..Len(timers) : MainResetFires(i)
    \/ \E i \in 1..Len(timers) : MainDefaultFires(i)
    \/ \E i \in 1..Len(timers) : \E resolved \in BOOLEAN : SubmissionSettles(i, resolved)
    \/ \E i \in 1..Len(timers) : StateTimeoutFires(i)
    \/ \E i \in 1..Len(timers) : InterResetFires(i)
    \/ \E i \in 1..Len(timers) : BannerRemoveFires(i)

Spec == InitTyped /\ [][Next]_vars

\* Typing, leaving fields and submitting, all before the first timer is due.
NextValidation ==
    \/ \E f \in Fields : \E v \in ValidationValues(f) : Input(f, v)
    \/ \E f \in Fields : Blur(f)
    \/ SubmitEvent(MaxFormSubmits)
    \/ handleFormSubmit
    \/ handleSubmit

SpecValidation == Init /\ [][NextValidation]_vars

\* The timer callbacks of both scripts.
TimerFires ==
    \/ \E i \in 1..Len(timers) : \E resolved \in BOOLEAN : MainSubmissionSettles(i, resolved)
    \/ \E i \in 1..Len(timers) : MainResetFires(i)
    \/ \E i \in 1..Len(timers) : MainDefaultFires(i)
    \/ \E i \in 1..Len(timers) : \E resolved \in BOOLEAN : SubmissionSettles(i, resolved)
    \/ \E i \in 1..Len(timers) : StateTimeoutFires(i)
    \/ \E i \in 1..Len(timers) : InterResetFires(i)
    \/ \E i \in 1..Len(timers) : BannerRemoveFires(i)

\* A submission followed to the end of its timers.
NextLive ==
    \/ SubmitEvent(MaxLiveSubmits)
    \/ handleFormSubmit
    \/ handleSubmit
    \/ Tick
    \/ TimerFires

\* Submissions followed through their timers, with handleSubmit free to
\* throw inside its try block.
NextSubmission ==
    \/ SubmitEvent(MaxSubmits)
    \/ handleFormSubmit
    \/ handleSubmit
    \/ handleSubmitFails
    \/ Tick
    \/ TimerFires

SpecSubmission == InitFilled /\ [][NextSubmission]_vars

\* One submission followed through its timers while the visitor edits and
\* leaves the message field.
NextReset ==
    \/ \E v \in MessageValues : Input("message", v)
    \/ Blur("message")
    \/ SubmitEvent(MaxFormSubmits)
    \/ handleFormSubmit
    \/ handleSubmit
    \/ Tick
    \/ TimerFires

SpecReset == InitFilled /\ [][NextReset]_vars

\* A listener of the delivered submit event runs: the event moves on to the
\* next listener, or its dispatch ends.  Among the steps of NextLive these
\* are exactly the steps of handleFormSubmit and handleSubmit.
ListenerRuns ==
    /\ dispatch # "none"
    /\ dispatch' \in {"none", "main", "interactions"} \ {dispatch}

\* The event loop keeps running: the listeners of a delivered event are
\* run, time does not stop while a timer is pending, and a due timer's
\* callback is run.  The visitor is under no obligation to submit.
SpecLive ==
    /\ InitFilled
    /\ [][NextLive]_vars
    /\ WF_dispatch(ListenerRuns)
    /\ WF_vars(Tick)
    /\ WF_vars(TimerFires)


\* The page is loaded with or without the reduced-motion preference and
\* with or without the data-no-animations marker.
InitAnimations ==
    /\ InitForm([f \in Fields |-> <<>>])
    /\ \E matches \in BOOLEAN : \E marker \in BOOLEAN : InitAnimationState(matches, marker)
    /\ InitShellExecuted

SpecAnimations == InitAnimations /\ [][NextAnimations]_vars

\* An observer delivers a pending notification to its callback: the
\* observer records what it reported.  Among the steps of NextAnimations
\* these are exactly the steps of NotifyMain and NotifyAnimations.
NotificationDelivered ==
    \/ \E e \in DOMAIN mainTargets :
          /\ mainTargets[e] # Reported(e)
          /\ mainTargets' = [mainTargets EXCEPT ![e] = Reported(e)]
          /\ observers' = observers
    \/ \E k \in 1..Len(observers) : \E e \in DOMAIN observers[k].targets :
          /\ observers[k].targets[e] # Reported(e)
          /\ observers' = [observers EXCEPT ![k].targets[e] = Reported(e)]
          /\ mainTargets' = mainTargets

\* A pending reveal timer advances: 50 ms pass or the callback of a timer
\* runs and the timer is no longer pending.  Among the steps of
\* NextAnimations these are exactly the steps of RevealTick,
\* MainRevealFires and RevealFires.
RevealTimerRuns ==
    LET ticked == [i \in 1..Len(revealTimers) |->
                     [revealTimers[i] EXCEPT !.left = @ - 1]]
        without(i) == SubSeq(revealTimers, 1, i - 1)
                        \o SubSeq(revealTimers, i + 1, Len(revealTimers))
    IN  /\ revealTimers # <<>>
        /\ revealTimers' \in {ticked} \cup {without(i) : i \in 1..Len(revealTimers)}

\* The event loop keeps running: observers deliver their notifications,
\* time does not stop while a reveal timer is pending, and a due timer's
\* callback is run.  The visitor is under no obligation to scroll or to
\* change the preference.
SpecAnimationsLive ==
    /\ InitAnimations
    /\ [][NextAnimations]_vars
    /\ WF_<<mainTargets, observers>>(NotificationDelivered)
    /\ WF_revealTimers(RevealTimerRuns)

\* The page is delivered on a local or a public host, with or without its
\* contact form and submit button (the button is looked up inside the form),
\* and with or without the reduced-motion preference.
InitLoad ==
    /\ InitForm([f \in Fields |-> <<>>])
    /\ \E matches \in BOOLEAN : InitAnimationState(matches, FALSE)
    /\ \E host \in Hostnames : \E form \in BOOLEAN : \E button \in BOOLEAN :
          /\ button => form
          /\ InitShell(host, form, button)

SpecLoad == InitLoad /\ [][NextLoad]_vars

SpecNavigation == Init /\ [][NextNavigation]_vars


\* ------------------------------------------------------------------ claims

Delivered == 1..submitCount \cap DOMAIN submits

\* C1: for a submit of a form whose fields are all valid, the button is put
\* in loading exactly once and then in exactly one of success and error,
\* never in success twice and never in an outcome without loading, counting
\* the state changes of every submit listener.
C1_OneLoadingOneOutcome ==
    \A sid \in Delivered :
        ~submits[sid].rejected =>
            /\ submits[sid].loading <= 1
            /\ submits[sid].success <= 1
            /\ submits[sid].success + submits[sid].error <= 1
            /\ (submits[sid].success + submits[sid].error > 0 => submits[sid].loading = 1)

\* C2: a submit event delivered while the button state is loading is a
\* no-op: no listener starts a simulated submission for it (none puts the
\* button in loading again) and the state stays loading.
C2_SubmitWhileLoadingIsNoOp ==
    \A sid \in Delivered :
        submits[sid].at = "loading" =>
            /\ submits[sid].loading = 0
            /\ (sid = submitCount /\ dispatch # "none" => currentState = "loading")

\* C3: a submission starts only from idle: a submit event delivered while
\* the button is in success, error or loading starts none.
C3_SubmissionStartsOnlyFromIdle ==
    \A sid \in Delivered :
        submits[sid].loading > 0 => submits[sid].at = "idle"

\* C4: no display timer scheduled for an earlier success or error state
\* changes the button once a later state transition has been applied.
C4_NoStaleDisplayTimerFires == ~staleFired

\* C5: the button carries exactly one of the state classes idle, loading,
\* success and error at every instant.
C5_ExactlyOneStateClass == Cardinality(btnClass \cap BUTTON_STATES) = 1

\* C6: a submit event whose form fails validation starts no simulated
\* submission in any listener, and the button does not leave its state for it.
C6_InvalidSubmitStartsNothing ==
    \A sid \in Delivered :
        submits[sid].rejected =>
            /\ submits[sid].loading = 0
            /\ submits[sid].success = 0
            /\ submits[sid].error = 0


\* The rule table of the form read on the trimmed value: a required field
\* is empty, or a non-empty value is shorter than the minimum length or
\* does not match the pattern.
Violates(f, v) ==
    LET rules == VALIDATION_RULES[f]
        typed == Trim(v)
    IN  \/ rules.required /\ typed = <<>>
        \/ /\ typed # <<>>
           /\ \/ Len(typed) < rules.minLength
              \/ ~PatternTest(rules.pattern, typed)

\* The field error display agrees with the rule table for field f.
ErrorShownIffViolates(f) ==
    IF Violates(f, values[f]) THEN fieldErrors[f] # <<>> ELSE fieldErrors[f] = <<>>

\* C7: for every rule-bearing field, a violating value has an inline error
\* displayed and makes the validation it took part in fail (validateField
\* on blur, validateForm on submit); a conforming value has no error
\* displayed.
C7_ViolationShownAndFormFails ==
    /\ last.op = "blur" =>
         /\ ErrorShownIffViolates(last.field)
         /\ last.ok = ~Violates(last.field, values[last.field])
    /\ (last.op = "handleFormSubmit" /\ dispatch = "interactions") =>
         /\ \A f \in Fields : ErrorShownIffViolates(f)
         /\ last.ok = (\A f \in Fields : ~Violates(f, values[f]))

\* The concrete results of C8 that do not depend on the length of the message.
C8_NameAndEmailCases ==
    LET f == last.field
        v == values[last.field]
    IN  /\ (f = "name" /\ v = NameA) => ~last.ok
        /\ (f = "name" /\ v = NameJaneDoe) => last.ok
        /\ (f = "email" /\ v = EmailX) => ~last.ok
        /\ (f = "email" /\ v = EmailOk) => last.ok
        /\ (f = "message" /\ Len(v) = 5) => ~last.ok

\* C8 as stated: validateField fails name "A" and passes "Jane Doe", fails
\* email "x" and passes "a@b.co", fails a message of 5 characters and
\* passes a message of exactly 10 characters.
C8_ConcreteResults ==
    last.op = "blur" =>
        /\ C8_NameAndEmailCases
        /\ (last.field = "message" /\ Len(values["message"]) = 10) => last.ok

\* C8 amended: the same results, where the message that passes has exactly
\* 10 characters once leading and trailing whitespace is trimmed.
C8_ConcreteResultsTrimmed ==
    last.op = "blur" =>
        /\ C8_NameAndEmailCases
        /\ (last.field = "message" /\ Len(Trim(values["message"])) = 10) => last.ok

\* validateField has passed a message of exactly 10 characters.
C8_Witness ==
    /\ last.op = "blur"
    /\ last.field = "message"
    /\ values["message"] = Message10
    /\ last.ok

\* C9: validateField returns true for a field whose rule is not required
\* and whose trimmed value is empty, and shows no error for it: an error
\* element is in its group afterwards only if one was there before.
C9_BlankOptionalFieldValid ==
    (/\ last.op = "blur"
     /\ ~VALIDATION_RULES[last.field].required
     /\ Trim(values[last.field]) = <<>>)
        => /\ last.ok
           /\ (fieldErrors[last.field] # <<>> => last.hadError)
           /\ (errorClass[last.field] => last.hadError)

\* validateField has run on the phone field holding only whitespace.
C9_Witness ==
    /\ last.op = "blur"
    /\ last.field = "phone"
    /\ values["phone"] = PhoneBlank
    /\ last.ok

\* C10: after an input event on a field, the field shows no error element,
\* no error class and no aria-invalid mark, whatever the new value is.
C10_InputClearsError ==
    last.op = "input" =>
        /\ fieldErrors[last.field] = <<>>
        /\ ~errorClass[last.field]
        /\ ~ariaInvalid[last.field]

\* An input event has arrived on a field that showed an error, and the value
\* typed violates the field's rule: the error is gone without validation.
C10_Witness ==
    /\ last.op = "input"
    /\ last.hadError
    /\ Violates(last.field, values[last.field])
    /\ fieldErrors[last.field] = <<>>

\* C11: after any sequence of blur, input and submit events, every field
\* group holds at most one inline error element, and a field whose group
\* holds an error element carries aria-invalid="true".
C11_OneErrorElementMarkedInvalid ==
    \A f \in Fields :
        /\ Len(fieldErrors[f]) <= 1
        /\ (fieldErrors[f] # <<>> => ariaInvalid[f])

\* validateField has failed on blur for a field that already showed an
\* error: the new error element has replaced the prior one.
C11_Witness ==
    /\ last.op = "blur"
    /\ last.hadError
    /\ ~last.ok
    /\ Len(fieldErrors[last.field]) = 1
    /\ ariaInvalid[last.field]

\* C12: a blur event on one field changes the error display of that field's
\* group only: the error elements, error classes and aria-invalid marks of
\* every other field are the same after the listener as before it.
C12_BlurLeavesOtherFields ==
    [][\A f \in Fields :
          Blur(f) =>
              \A g \in Fields \ {f} :
                  /\ fieldErrors'[g] = fieldErrors[g]
                  /\ errorClass'[g] = errorClass[g]
                  /\ ariaInvalid'[g] = ariaInvalid[g]]_vars

\* A blur has shown an error on one field while another field, itself
\* holding a value that breaks its rule, shows none.
C12_Witness ==
    /\ last.op = "blur"
    /\ ~last.ok
    /\ fieldErrors[last.field] # <<>>
    /\ \E g \in Fields \ {last.field} :
           /\ Violates(g, values[g])
           /\ fieldErrors[g] = <<>>
    /\ \E g \in Fields \ {last.field} : fieldErrors[g] # <<>>

\* A success display is running: ButtonStateManager is in success (its
\* display timer is pending) or main.js's success timer is pending.
SuccessDisplayRunning ==
    \/ currentState = "success"
    \/ \E i \in 1..Len(timers) : timers[i].kind = "mainReset"

\* C13: after a simulated submission has resolved with success the button
\* shows the success state for the whole display duration, with no further
\* submit: until the display timer fires it carries the class success and
\* no class of another submission state.
C13_SuccessShownForDuration ==
    (submitCount = 1 /\ SuccessDisplayRunning) =>
        /\ "success" \in btnClass
        /\ "error" \notin btnClass
        /\ "loading" \notin btnClass

\* A form-level error banner is in the form.
BannerPresent == formErrors > 0 \/ formErrorMessages # <<>>

\* The button is back in idle: idle is its only state class and it is enabled.
ButtonIdle == btnClass \cap BUTTON_STATES = {"idle"} /\ ~btnDisabled

C15_BannerAwaitsDismissal ==
    (dispatch = "none" /\ BannerPresent) => timers # <<>>

\* C16: once the listeners of an event have run, the state class on the
\* button is the state ButtonStateManager.getState() returns, and the
\* button is disabled exactly when that state is loading or success.
C16_ButtonFollowsStateMachine ==
    dispatch = "none" =>
        /\ btnClass \cap BUTTON_STATES = {currentState}
        /\ btnDisabled <=> currentState \in {"loading", "success"}

\* C17: no attribute of an element is written by more than one script: the
\* data-animation-delay of every animated element has at most one writer.
C17_OneWriterPerAttribute ==
    \A e \in Elements : Cardinality(delayWrittenBy[e]) <= 1

\* C18: an element is revealed at most once by the script that animates it,
\* whatever the viewport entries and exits are, and no reveal is timed
\* shorter than the element's stagger delay.
C18_RevealedOnceAfterStagger == ~revealedAgain /\ ~revealedEarly

\* An element is in the revealed state: it carries the class active or
\* the inline style of main.js's reveal.
Revealed(e) == "active" \in classList[e] \/ styleOpacity[e] = "1"

\* An observer has the element among its targets.
Observed(e) ==
    \/ e \in DOMAIN mainTargets
    \/ \E k \in 1..Len(observers) : e \in DOMAIN observers[k].targets

\* C19: once an element is revealed no observer has it among its targets.
C19_RevealedElementUnobserved ==
    \A e \in Elements : Revealed(e) => ~Observed(e)

\* C20: no reveal is executed while the reduced-motion preference or the
\* data-no-animations marker is active.
C20_NoRevealWhileDisabled == ~revealedDisabled

\* The classes prepareElement gives an element to hide it until its reveal.
RevealClasses == {"reveal", "reveal-left", "reveal-right", "reveal-scale"}

\* An element is in the hidden initial state: it carries a reveal class
\* without the class active, or the inline opacity 0.
Hidden(e) ==
    \/ classList[e] \cap RevealClasses # {} /\ "active" \notin classList[e]
    \/ styleOpacity[e] = "0"

\* C21: while reduced motion or the data-no-animations marker is active no
\* animatable element is in the hidden initial state, whether the signal was
\* active at initialisation or became active later.
C21_DisabledMeansVisible ==
    shouldDisableAnimations(reducedMotion) => \A e \in Elements : ~Hidden(e)

\* The observers in animationState.observers that watch a group.
ObserversOf(selector) == {k \in 1..Len(observers) : observers[k].group = selector}

\* The groups of animations.js that match an element of the page.
MatchedGroups ==
    {AnimationGroups[i].selector : i \in {j \in 1..Len(AnimationGroups) :
        querySelectorAll({AnimationGroups[j].selector}) # <<>>}}

C23_DelayIsIndexTimesStep ==
    \A i \in 1..Len(revealTimers) :
        revealTimers[i].delay = StaggerOf(revealTimers[i].script, revealTimers[i].element)

\* The link clicked last is an in-page anchor.
ClickedAnchor == clicks > 0 /\ lastClick.href # <<>> /\ lastClick.href[1] = "#"

\* The link clicked last is an in-page anchor whose target exists.
ClickedExistingTarget ==
    clicks > 0 /\ \E t \in TargetIds : lastClick.href = <<"#", t>>

\* The place of a call among the calls the last click handler made (0 if
\* it was not made).
Position(call) ==
    IF \E i \in 1..Len(navEffects) : navEffects[i] = call
    THEN CHOOSE i \in 1..Len(navEffects) : navEffects[i] = call
    ELSE 0

\* C24: a click on a link "#id" whose target exists prevents the default
\* navigation, requests a scroll to the target's position minus 80, sets the
\* URL fragment through history and focuses the target, in the order scroll
\* request, URL update, tabindex -1, focus.
C24_ClickScrollsThenFocuses ==
    ClickedExistingTarget =>
        /\ defaultPrevented
        /\ scrollRequest = <<lastClick.top - 80>>
        /\ url = lastClick.href
        /\ lastClick.href[2] \in tabindex
        /\ focused = lastClick.href[2]
        /\ 0 < Position("scrollTo")
        /\ Position("scrollTo") < Position("pushState")
        /\ Position("pushState") < Position("setAttribute")
        /\ Position("setAttribute") < Position("focus")

\* A second click has moved the focus from one target to the other.
C24_Witness ==
    /\ clicks = 2
    /\ lastClick.href = <<"#", "contact">>
    /\ focused = "contact"
    /\ tabindex = {"about", "contact"}

\* C25: a click on an in-page anchor whose target id does not exist requests
\* no scroll, leaves the URL, the focus and every attribute of every
\* element as they are, and produces a log entry.
C25_MissingTargetIsNoOp ==
    [][\A href \in Hrefs : \A top \in TargetTops :
          (/\ Click(href, top)
           /\ href # <<>>
           /\ href[1] = "#"
           /\ ~\E t \in TargetIds : href = <<"#", t>>)
          => /\ UNCHANGED <<scrollRequest, url, focused, tabindex>>
             /\ UNCHANGED <<elementVars, formVars, buttonVars>>
             /\ Position("scrollTo")' = 0
             /\ logged' = "warn"]_vars

\* After a click that focused a target, a link to a missing target has been
\* clicked.
C25_Witness ==
    /\ clicks = 2
    /\ lastClick.href = <<"#", "missing">>
    /\ focused = "about"
    /\ logged = "warn"

\* The steps a script's init calls after the given step.
StepsAfter(script, step) ==
    {ScriptSteps[script][j].name :
        j \in {k \in 1..Len(ScriptSteps[script]) :
                 \E i \in 1..(k - 1) : ScriptSteps[script][i].name = step}}

\* C26: when one initialisation step of main.js or animations.js throws,
\* every later step of that script's init is still called.
C26_LaterStepsStillRun ==
    phase = "ready" =>
        \A script \in {"main.js", "animations.js"} : StepsAfter(script, failed) \subseteq entered

\* C27: no exception thrown inside a handler or timer callback propagates
\* out of the handler.
C27_NoExceptionEscapes == uncaught = {}

\* C28: when the contact form or the submit button is missing, no submit
\* listener and no manager is created and no exception escapes; a reveal
\* group that matches no element gets no observer while every group that
\* matches one is set up.
C28_MissingElementSkipsFeature ==
    (phase = "ready" /\ failed = "" /\ handlerFaults = 0) =>
        /\ (~formPresent \/ ~buttonPresent) =>
              /\ listeners \cap {"main.submit", "interactions.submit"} = {}
              /\ managers = {}
              /\ uncaught = {}
        /\ ~shouldDisableAnimations(reducedMotion) =>
              \A i \in 1..Len(AnimationGroups) :
                  (ObserversOf(AnimationGroups[i].selector) # {})
                     <=> (AnimationGroups[i].selector \in MatchedGroups)

\* The debug objects of the three scripts.
DebugGlobals == {"ProgrammingSchool", "ProgrammingSchoolInteractions", "AnimationsModule"}

\* localhost and 127.0.0.1
LoopbackHosts == {"localhost", "127.0.0.1"}

\* C29 as stated: once the page is loaded the three debug objects are
\* defined if the hostname is localhost or 127.0.0.1, and none is defined
\* on any other hostname.
C29_DebugGlobalsIffLoopback ==
    phase = "ready" =>
        IF hostname \in LoopbackHosts THEN globals = DebugGlobals ELSE globals = {}

\* C29 as the code has it: on another hostname no debug object is ever
\* defined; on localhost and 127.0.0.1 ProgrammingSchool and AnimationsModule
\* are defined as soon as the scripts have run, and
\* ProgrammingSchoolInteractions exactly when init has constructed the
\* button manager and the form manager.
C29_DebugGlobalsOnLoopbackOnly ==
    /\ globals \subseteq DebugGlobals
    /\ hostname \notin LoopbackHosts => globals = {}
    /\ hostname \in LoopbackHosts =>
          /\ phase # "parsed" => {"ProgrammingSchool", "AnimationsModule"} \subseteq globals
          /\ ("ProgrammingSchoolInteractions" \in globals)
                <=> (managers = {"buttonManager", "formManager"})

\* A page without contact form has been loaded on localhost.
C29_Witness ==
    /\ phase = "ready"
    /\ hostname = "localhost"
    /\ ~formPresent
    /\ globals = {"ProgrammingSchool", "AnimationsModule"}

\* C30: on a submit that fails validation, every prior field error and the
\* prior banner have been cleared and every required field has been
\* validated: each invalid required field shows its own inline error, each
\* valid required field shows none, and no banner is left.
C30_SubmitValidatesEveryRequiredField ==
    (last.op = "handleFormSubmit" /\ dispatch = "interactions" /\ ~last.ok) =>
        /\ \A f \in RequiredInputs : ErrorShownIffViolates(f)
        /\ ~BannerPresent

\* C32: for one submit the outcome shown is consistent over all submit
\* listeners of the form: while the first submit is the only one delivered,
\* the button is not in the success state while a failure banner is
\* displayed, and a banner is displayed only if no listener applied the
\* success state for that submit.
C32_OneOutcomePerSubmit ==
    (submitCount = 1 /\ BannerPresent) =>
        /\ "success" \notin btnClass
        /\ submits[1].success = 0

\* C33: at every instant the form contains at most one form-level error
\* banner.
C33_AtMostOneBanner == formErrors + Len(formErrorMessages) <= 1

\* A simulated submission started by handleSubmit is pending.
SubmissionPending == \E i \in 1..Len(timers) : timers[i].kind = "interSim"

\* C31: isSubmitting is true exactly while a simulated submission started
\* by handleSubmit is pending, and only while the button is loading: it is
\* false again once the submission has finished, whether it succeeded,
\* failed or the handler threw.  So a submit that reaches handleSubmit while
\* the button is idle is always accepted: it starts a submission or reports
\* the exception thrown, and is never dropped by the re-entrancy guard.
C31_FlagOnlyWhilePending ==
    /\ [](isSubmitting <=> SubmissionPending)
    /\ [](isSubmitting => currentState = "loading")
    /\ [][(dispatch = "interactions" /\ dispatch' = "none" /\ currentState = "idle")
            => currentState' \in {"loading", "error"}]_vars

\* The second submit is accepted after the first submission has finished.
C31_Witness ==
    /\ submitCount = 2
    /\ isSubmitting
    /\ \A i \in 1..Len(timers) : timers[i].kind = "interSim" => timers[i].sid = 2
    /\ submits[1].success + submits[1].error > 0

\* No inline field error, error class or aria-invalid marker is displayed.
NoFieldErrorShown ==
    \A f \in Fields : fieldErrors[f] = <<>> /\ ~errorClass[f] /\ ~ariaInvalid[f]

\* The timer that resets the form after a successful submission runs, for
\* a submit that validateForm accepted.
ResetAfterSuccess ==
    \E i \in 1..Len(timers) :
        /\ MainResetFires(i) \/ InterResetFires(i)
        /\ ~submits[timers[i].sid].rejected

\* C34: right after the form reset that follows a successful submission no
\* stale field error is displayed: no inline field error and no error
\* class or aria-invalid marker, whatever blur events arrived while the
\* button was loading or showing success.  (The claim also excludes a
\* banner; the fields are enough to settle it.)
C34_NoStaleErrorAfterReset ==
    [][ResetAfterSuccess => NoFieldErrorShown']_vars

\* The observer of main.js, or an observer of animations.js, watches the
\* element: the script has prepared it and animations were enabled when
\* it did.
WatchedByMain(e) == e \in DOMAIN mainTargets
WatchedByAnimations(e) == \E k \in 1..Len(observers) : e \in DOMAIN observers[k].targets

====
